---- MODULE Spec2Model ----
(***************************************************************************)
(* SmartInput (AI_Test/SmartInput/main.py): the key-event driven           *)
(* buffer/mode state machine, the pinyin prefix classifier, the candidate  *)
(* lookup wrapper, the UI worker and the main wait loop.                   *)
(*                                                                         *)
(* A Python str is modelled as a sequence of one-character strings, so     *)
(* that slicing, indexing and lower() are computed as the code computes    *)
(* them.  A candidate (the join of one dag path) is a sequence of glyphs,  *)
(* one per pinyin chunk.                                                   *)
(***************************************************************************)
EXTENDS Integers, Sequences, FiniteSets, TLC

(* ------------------------------ bounds -------------------------------- *)
\* longest raw_input_buffer explored
MaxLen == 2
\* most UIState messages waiting in ui_queue
MaxQueue == 1
\* most paths the external dag search hands back before truncation
MaxPaths == 6
\* longest string given to the classifier in SpecClassify
MaxStr == 2

(* ----------------------------- alphabet ------------------------------- *)
LowerAlpha ==
  <<"a","b","c","d","e","f","g","h","i","j","k","l","m",
    "n","o","p","q","r","s","t","u","v","w","x","y","z">>

UpperAlpha ==
  <<"A","B","C","D","E","F","G","H","I","J","K","L","M",
    "N","O","P","Q","R","S","T","U","V","W","X","Y","Z">>

\* the letter keys the key source delivers: one that is a pinyin initial
\* only after lower(), one that is neither an initial nor a final
LetterKeys == {"N", "w"}

\* the digit keys the key source delivers
DigitKeys == {"0", "1", "2", "3", "4", "5", "6"}

DigitChars == {"0","1","2","3","4","5","6","7","8","9"}

\* str.lower() of one character
Lower(c) ==
  IF \E i \in 1..26 : UpperAlpha[i] = c
    THEN LowerAlpha[CHOOSE i \in 1..26 : UpperAlpha[i] = c]
    ELSE c

\* str.isalpha() of one character
IsAlpha(c) ==
  \/ \E i \in 1..26 : LowerAlpha[i] = c
  \/ \E i \in 1..26 : UpperAlpha[i] = c
  \/ c = "ü"

\* str.isdigit() of one character
IsDigit(c) == c \in DigitChars

\* int(ch) of one decimal digit
DigitValue(c) ==
  CASE c = "0" -> 0 [] c = "1" -> 1 [] c = "2" -> 2 [] c = "3" -> 3
    [] c = "4" -> 4 [] c = "5" -> 5 [] c = "6" -> 6 [] c = "7" -> 7
    [] c = "8" -> 8 [] c = "9" -> 9

(* ------------------------- mode classifier ---------------------------- *)
valid_initials ==
  {"b","p","m","f","d","z","t","n","l","g","k","h","j","q","x","z","c","s"}

valid_finals == {"a","e","i","o","u","ü","v"}

\* variant: the first character is tested without lower()
is_pinyin_sequence_prefix_NoLower(text) ==
  IF text = <<>> THEN FALSE
  ELSE IF ~ \A i \in 1..Len(text) : IsAlpha(Lower(text[i])) THEN FALSE
  ELSE LET first_char == text[1]
       IN  IF first_char \notin valid_initials /\ first_char \notin valid_finals
             THEN FALSE
             ELSE TRUE

is_pinyin_sequence_prefix(text) ==
  IF text = <<>> THEN FALSE
  ELSE IF ~ \A i \in 1..Len(text) : IsAlpha(Lower(text[i])) THEN FALSE
  ELSE LET first_char == Lower(text[1])
       IN  IF first_char \notin valid_initials /\ first_char \notin valid_finals
             THEN FALSE
             ELSE TRUE

(* ------------------------- candidate lookup --------------------------- *)
top_k_default == 5

\* variant: the odd last character is skipped instead of appended
seg_iter_DropsOddChar(pinyin_str, i, pinyin_list) ==
  IF i + 2 <= Len(pinyin_str)
    THEN [i |-> i + 2,
          pinyin_list |-> Append(pinyin_list, SubSeq(pinyin_str, i + 1, i + 2))]
    ELSE [i |-> i + 1, pinyin_list |-> pinyin_list]

\* lines 129-134: one iteration of the while loop of simple_seg, i 0-based
seg_iter(pinyin_str, i, pinyin_list) ==
  IF i + 2 <= Len(pinyin_str)
    THEN [i |-> i + 2,
          pinyin_list |-> Append(pinyin_list, SubSeq(pinyin_str, i + 1, i + 2))]
    ELSE [i |-> i + 1,
          pinyin_list |-> Append(pinyin_list, <<pinyin_str[i + 1]>>)]

\* lines 127-134: the while loop of simple_seg from index i
RECURSIVE seg_loop(_, _, _)
seg_loop(pinyin_str, i, pinyin_list) ==
  IF i < Len(pinyin_str)
    THEN LET after == seg_iter(pinyin_str, i, pinyin_list)
         IN  seg_loop(pinyin_str, after.i, after.pinyin_list)
    ELSE pinyin_list

\* a Python str as one TLA+ string
RECURSIVE StrOf(_)
StrOf(chars) ==
  IF chars = <<>> THEN "" ELSE Head(chars) \o StrOf(Tail(chars))

\* ''.join(item.path) of the rank-th path the dag search returns for
\* pinyin_list: one glyph per chunk
JoinPath(pinyin_list, rank) ==
  [j \in 1..Len(pinyin_list) |->
     StrOf(pinyin_list[j]) \o "#" \o ToString(rank)]

\* variant: the [:top_k] slice is missing
Truncate_None(candidates, top_k) == candidates

\* candidates[:top_k]
Truncate(candidates, top_k) ==
  IF Len(candidates) <= top_k THEN candidates ELSE SubSeq(candidates, 1, top_k)

\* the outcomes of the external dag call: it raises, or returns n paths
DagOutcomes ==
  {[raised |-> TRUE, n |-> 0]} \cup [raised : {FALSE}, n : 0..MaxPaths]

\* variant: on an error the pinyin itself is returned as the only candidate
simple_seg_FallbackToPinyin(pinyin_str, top_k, dag_result) ==
  IF pinyin_str = <<>> THEN <<>>
  ELSE LET pinyin_list == seg_loop(pinyin_str, 0, <<>>)
       IN  IF dag_result.raised THEN << <<StrOf(pinyin_str)>> >>
           ELSE LET candidates ==
                      [r \in 1..dag_result.n |-> JoinPath(pinyin_list, r)]
                IN  Truncate(candidates, top_k)

simple_seg(pinyin_str, top_k, dag_result) ==
  IF pinyin_str = <<>> THEN <<>>
  ELSE LET pinyin_list == seg_loop(pinyin_str, 0, <<>>)
       IN  IF dag_result.raised THEN <<>>
           ELSE LET candidates ==
                      [r \in 1..dag_result.n |-> JoinPath(pinyin_list, r)]
                IN  Truncate(candidates, top_k)

get_top_candidates(pinyin, top_k, dag_result) ==
  simple_seg(pinyin, top_k, dag_result)

(* ------------------------------- state -------------------------------- *)
VARIABLES
  current_mode,        \* "unknown" | "pinyin" | "english"
  input_buffer,        \* str
  raw_input_buffer,    \* str
  current_candidates,  \* list of candidates
  ctrl_pressed,
  shift_pressed,
  ui_queue,            \* queue.Queue of UIState, FIFO
  stop_event,          \* threading.Event
  listener,            \* "running" | "stopped": the pynput listener
  tray_menu,           \* mode last passed to update_tray_menu
  tray_running,        \* the tray icon's event loop is running
  ui_pc,               \* ui_worker: "loop" | "done"
  main_pc,             \* main: "wait" | "stop_listener" | "stop_tray" | "done"
  output,              \* what the last key event printed as committed text
  last,                \* the last key event the listener delivered
  pre_mode,            \* current_mode before the last key event
  pre_raw,             \* raw_input_buffer before the last key event
  prev_kind,           \* kind of the key event before the last one
  mode_site,           \* code site that last assigned current_mode
  last_ui,             \* the UIState most recently put on ui_queue, if any
  lookup,              \* the get_top_candidates call of the last key event
  tray_call,           \* the mode the last key event passed to the tray
  s1, s2, r1, r2, cl_pc, \* classifier harness (SpecClassify)
  seg_str, seg_i, seg_list, seg_pc  \* chunking harness (SpecSeg)

vars ==
  <<current_mode, input_buffer, raw_input_buffer, current_candidates,
    ctrl_pressed, shift_pressed, ui_queue, stop_event, listener, tray_menu,
    tray_running, ui_pc, main_pc, output, last, pre_mode, pre_raw, prev_kind,
    mode_site, last_ui, lookup, tray_call, s1, s2, r1, r2, cl_pc,
    seg_str, seg_i, seg_list, seg_pc>>

core == <<current_mode, input_buffer, raw_input_buffer, current_candidates>>

modifiers == <<ctrl_pressed, shift_pressed>>

threads == <<tray_running, ui_pc, main_pc>>

classify_harness == <<s1, s2, r1, r2, cl_pc>>

seg_harness == <<seg_str, seg_i, seg_list, seg_pc>>

harness == <<classify_harness, seg_harness>>

UIState(visible, buffer, candidates) ==
  [visible |-> visible, buffer |-> buffer, candidates |-> candidates]

NoOutput == <<>>

(* -------------------------------- keys -------------------------------- *)
CtrlKeys == {"ctrl", "ctrl_l", "ctrl_r"}

ShiftKeys == {"shift", "shift_l", "shift_r"}

NamedKeys ==
  {"ctrl_l", "shift_l", "backspace", "esc", "space", "enter", "tab"}

\* a key: a named key (key.char raises AttributeError) or a character key
Key(name, char) == [name |-> name, char |-> char]

Keys ==
  { Key(n, "") : n \in NamedKeys }
    \cup { Key("char", c) : c \in LetterKeys \cup DigitKeys \cup {";"} }

\* the keys whose release is delivered: one for each branch of on_release
ReleaseKeys == { Key(n, "") : n \in {"ctrl_l", "shift_l", "esc", "tab"} }

NoEvent == [ev |-> "none", key |-> Key("none", "")]

Pressed(key) == [ev |-> "press", key |-> key]

Released(key) == [ev |-> "release", key |-> key]

(* ------------------------------- Init --------------------------------- *)
ClassifyOff ==
  /\ s1 = <<>>
  /\ s2 = <<>>
  /\ r1 = "none"
  /\ r2 = "none"
  /\ cl_pc = "off"

SegOff ==
  /\ seg_str = <<>>
  /\ seg_i = 0
  /\ seg_list = <<>>
  /\ seg_pc = "off"

HarnessOff == ClassifyOff /\ SegOff

ProgramInit ==
  /\ current_mode = "unknown"
  /\ input_buffer = <<>>
  /\ raw_input_buffer = <<>>
  /\ current_candidates = <<>>
  /\ ctrl_pressed = FALSE
  /\ shift_pressed = FALSE
  /\ ui_queue = <<>>
  /\ stop_event = FALSE
  /\ listener = "running"
  /\ tray_menu = "unknown"
  /\ tray_running = TRUE
  /\ ui_pc = "loop"
  /\ main_pc = "wait"
  /\ output = NoOutput
  /\ last = NoEvent
  /\ pre_mode = "unknown"
  /\ pre_raw = <<>>
  /\ prev_kind = "other"
  /\ mode_site = "init"
  /\ last_ui = <<>>
  /\ lookup = <<>>
  /\ tray_call = <<>>

Init == ProgramInit /\ HarnessOff

(* ------------------------- tray notification -------------------------- *)
\* update_tray_menu(mode); update_tray_icon_image(mode)
update_tray_menu(mode) ==
  /\ tray_menu' = mode
  /\ tray_call' = <<mode>>

\* the key event does not call the tray updater
NoTrayCall ==
  /\ UNCHANGED tray_menu
  /\ tray_call' = <<>>

\* the key event does not call get_top_candidates
NoLookup == lookup' = <<>>

\* variant: the test that the new mode is pinyin or english is missing
NotifyOnChange_AnyMode(prev_mode) ==
  IF current_mode' # prev_mode
    THEN update_tray_menu(current_mode')
    ELSE NoTrayCall

\* lines 284-287 and 319-321
NotifyOnChange(prev_mode) ==
  IF current_mode' # prev_mode /\ current_mode' \in {"pinyin", "english"}
    THEN update_tray_menu(current_mode')
    ELSE NoTrayCall

\* variant: nothing is enqueued when the new mode is not pinyin
RecomputeCandidates_SilentUnlessPinyin ==
  IF current_mode' = "pinyin"
    THEN \E dag_result \in DagOutcomes :
           /\ current_candidates' =
                get_top_candidates(input_buffer', top_k_default, dag_result)
           /\ lookup' = <<[arg |-> input_buffer', raised |-> dag_result.raised,
                           n |-> dag_result.n]>>
           /\ ui_queue' = Append(ui_queue,
                UIState(TRUE, input_buffer', current_candidates'))
    ELSE /\ current_candidates' = <<>>
         /\ NoLookup
         /\ UNCHANGED ui_queue

\* variant: the lookup is given the buffer as it was before the key
RecomputeCandidates_StaleBuffer ==
  IF current_mode' = "pinyin"
    THEN \E dag_result \in DagOutcomes :
           /\ current_candidates' =
                get_top_candidates(input_buffer, top_k_default, dag_result)
           /\ lookup' = <<[arg |-> input_buffer, raised |-> dag_result.raised,
                           n |-> dag_result.n]>>
           /\ ui_queue' = Append(ui_queue,
                UIState(TRUE, input_buffer', current_candidates'))
    ELSE /\ current_candidates' = <<>>
         /\ NoLookup
         /\ ui_queue' = Append(ui_queue, UIState(FALSE, input_buffer', <<>>))

\* lines 289-294 and 324-329
RecomputeCandidates ==
  IF current_mode' = "pinyin"
    THEN \E dag_result \in DagOutcomes :
           /\ current_candidates' =
                get_top_candidates(input_buffer', top_k_default, dag_result)
           /\ lookup' = <<[arg |-> input_buffer', raised |-> dag_result.raised,
                           n |-> dag_result.n]>>
           /\ ui_queue' = Append(ui_queue,
                UIState(TRUE, input_buffer', current_candidates'))
    ELSE /\ current_candidates' = <<>>
         /\ NoLookup
         /\ ui_queue' = Append(ui_queue, UIState(FALSE, input_buffer', <<>>))

(* ------------------------------ on_press ------------------------------ *)
\* the kind of the last key event: a force-switch (Shift pressed while Ctrl
\* is held), a letter press, or anything else
LastKind ==
  IF last.ev = "press" /\ last.key.name \in ShiftKeys /\ ctrl_pressed
    THEN "force"
  ELSE IF last.ev = "press" /\ last.key.char # "" /\ IsAlpha(last.key.char)
    THEN "letter"
  ELSE "other"

\* what every key event records about itself
Record(event) ==
  /\ last' = event
  /\ pre_mode' = current_mode
  /\ pre_raw' = raw_input_buffer
  /\ prev_kind' = LastKind

\* lines 234-236
PressCtrl(key) ==
  /\ ctrl_pressed' = TRUE
  /\ output' = NoOutput
  /\ NoLookup
  /\ NoTrayCall
  /\ UNCHANGED <<core, shift_pressed, ui_queue, stop_event, listener,
                 mode_site>>

\* lines 239-244: Shift alone
PressShiftOnly(key) ==
  /\ ~ ctrl_pressed
  /\ shift_pressed' = TRUE
  /\ output' = NoOutput
  /\ NoLookup
  /\ NoTrayCall
  /\ UNCHANGED <<core, ctrl_pressed, ui_queue, stop_event, listener,
                 mode_site>>

\* variant: the final else branch switches to english
ToggledMode_UnknownToEnglish(mode) ==
  IF mode = "pinyin" THEN "english"
  ELSE IF mode = "english" THEN "pinyin"
  ELSE "english"

\* lines 247-255
ToggledMode(mode) ==
  IF mode = "pinyin" THEN "english"
  ELSE IF mode = "english" THEN "pinyin"
  ELSE "pinyin"

\* variant: raw_input_buffer is not cleared
ClearOnSwitch_KeepRaw ==
  /\ input_buffer' = <<>>
  /\ raw_input_buffer' = raw_input_buffer
  /\ current_candidates' = <<>>

\* lines 257-259
ClearOnSwitch ==
  /\ input_buffer' = <<>>
  /\ raw_input_buffer' = <<>>
  /\ current_candidates' = <<>>

\* variant: visible is computed from the mode before the switch
SwitchMessage_OldMode == UIState(current_mode = "pinyin", <<>>, <<>>)

\* line 260
SwitchMessage == UIState(current_mode' = "pinyin", <<>>, <<>>)

\* lines 239-266: Shift while Ctrl is held
PressForceSwitch(key) ==
  /\ ctrl_pressed
  /\ Len(ui_queue) < MaxQueue
  /\ shift_pressed' = TRUE
  /\ current_mode' = ToggledMode(current_mode)
  /\ ClearOnSwitch
  /\ ui_queue' = Append(ui_queue, SwitchMessage)
  /\ update_tray_menu(current_mode')
  /\ mode_site' = "force"
  /\ output' = NoOutput
  /\ NoLookup
  /\ UNCHANGED <<ctrl_pressed, stop_event, listener>>

\* variant: s[1:], the wrong end of the string
DropLast_First(s) == IF s = <<>> THEN s ELSE Tail(s)

\* s[:-1]
DropLast(s) == IF s = <<>> THEN s ELSE SubSeq(s, 1, Len(s) - 1)

\* variant: the emptiness test is off by one
ReclassifyAfterBackspace_OffByOne(buffer) ==
  IF Len(buffer) > 1
    THEN IF is_pinyin_sequence_prefix(buffer) THEN "pinyin" ELSE "english"
    ELSE "unknown"

\* variant: the buffer is classified without the test that it is non-empty
ReclassifyAfterBackspace_NoEmptyCase(buffer) ==
  IF is_pinyin_sequence_prefix(buffer) THEN "pinyin" ELSE "english"

\* lines 276-282
ReclassifyAfterBackspace(buffer) ==
  IF buffer # <<>>
    THEN IF is_pinyin_sequence_prefix(buffer) THEN "pinyin" ELSE "english"
    ELSE "unknown"

\* variant: the test of the mode is missing
BackspaceApplies_AnyMode == input_buffer # <<>>

\* line 270
BackspaceApplies == current_mode = "pinyin" /\ input_buffer # <<>>

\* lines 269-297: Backspace in pinyin mode with a non-empty buffer
PressBackspace(key) ==
  /\ BackspaceApplies
  /\ Len(ui_queue) < MaxQueue
  /\ input_buffer' = DropLast(input_buffer)
  /\ raw_input_buffer' = DropLast(raw_input_buffer)
  /\ current_mode' = ReclassifyAfterBackspace(input_buffer')
  /\ NotifyOnChange(current_mode)
  /\ RecomputeCandidates
  /\ mode_site' = "backspace"
  /\ output' = NoOutput
  /\ UNCHANGED <<modifiers, stop_event, listener>>

\* variant: on_press returns None, which keeps the listener running
PressEsc_KeepsListening(key) ==
  /\ stop_event' = TRUE
  /\ output' = NoOutput
  /\ NoLookup
  /\ NoTrayCall
  /\ UNCHANGED <<core, modifiers, ui_queue, listener, mode_site>>

\* lines 300-303
PressEsc(key) ==
  /\ stop_event' = TRUE
  /\ listener' = "stopped"
  /\ output' = NoOutput
  /\ NoLookup
  /\ NoTrayCall
  /\ UNCHANGED <<core, modifiers, ui_queue, mode_site>>

\* variant: the buffer is classified by its last character
classify_LastChar(text) ==
  IF is_pinyin_sequence_prefix(<<text[Len(text)]>>) THEN "pinyin" ELSE "english"

\* lines 311-316
classify(text) ==
  IF is_pinyin_sequence_prefix(text) THEN "pinyin" ELSE "english"

\* lines 306-332
PressLetter(key) ==
  /\ Len(raw_input_buffer) < MaxLen
  /\ Len(ui_queue) < MaxQueue
  /\ raw_input_buffer' = Append(raw_input_buffer, key.char)
  /\ current_mode' = classify(raw_input_buffer')
  /\ input_buffer' = raw_input_buffer'
  /\ NotifyOnChange(current_mode)
  /\ RecomputeCandidates
  /\ mode_site' = "letter"
  /\ output' = NoOutput
  /\ UNCHANGED <<modifiers, stop_event, listener>>

\* variant: the first candidate is never used
CommitOutput_RawOnly == <<input_buffer>>

\* lines 337-347
CommitOutput ==
  IF current_mode = "pinyin"
    THEN IF current_candidates # <<>>
           THEN <<current_candidates[1]>>
           ELSE <<input_buffer>>
    ELSE <<input_buffer>>

\* variant: current_candidates is not cleared
ResetAfterCommit_KeepCandidates ==
  /\ input_buffer' = <<>>
  /\ raw_input_buffer' = <<>>
  /\ current_candidates' = current_candidates
  /\ current_mode' = "unknown"
  /\ ui_queue' = Append(ui_queue, UIState(FALSE, <<>>, <<>>))
  /\ mode_site' = "commit"

\* lines 349-354 and 366-370
ResetAfterCommit ==
  /\ input_buffer' = <<>>
  /\ raw_input_buffer' = <<>>
  /\ current_candidates' = <<>>
  /\ current_mode' = "unknown"
  /\ ui_queue' = Append(ui_queue, UIState(FALSE, <<>>, <<>>))
  /\ mode_site' = "commit"

\* lines 335-355, buffer non-empty
PressCommit(key) ==
  /\ input_buffer # <<>>
  /\ Len(ui_queue) < MaxQueue
  /\ output' = CommitOutput
  /\ ResetAfterCommit
  /\ NoLookup
  /\ NoTrayCall
  /\ UNCHANGED <<modifiers, stop_event, listener>>

\* lines 358-361
DigitSelects(ch) ==
  /\ ch # "" /\ IsDigit(ch) /\ ch \in {"1", "2", "3", "4", "5"}
  /\ current_mode = "pinyin" /\ current_candidates # <<>>
  /\ DigitValue(ch) - 1 < Len(current_candidates)

\* variant: the digit's index is ignored and the first candidate is taken
PressDigit_FirstCandidate(key) ==
  /\ DigitSelects(key.char)
  /\ Len(ui_queue) < MaxQueue
  /\ output' = <<current_candidates[1]>>
  /\ ResetAfterCommit
  /\ NoLookup
  /\ NoTrayCall
  /\ UNCHANGED <<modifiers, stop_event, listener>>

\* lines 358-371, a candidate is selected
PressDigit(key) ==
  /\ DigitSelects(key.char)
  /\ Len(ui_queue) < MaxQueue
  /\ output' = <<current_candidates[(DigitValue(key.char) - 1) + 1]>>
  /\ ResetAfterCommit
  /\ NoLookup
  /\ NoTrayCall
  /\ UNCHANGED <<modifiers, stop_event, listener>>

\* every path of on_press that falls off the end or returns without effect
PressIgnored(key) ==
  /\ output' = NoOutput
  /\ NoLookup
  /\ NoTrayCall
  /\ UNCHANGED <<core, modifiers, ui_queue, stop_event, listener, mode_site>>

\* lines 212-371: the branch on_press takes for key
on_press(key) ==
  IF key.name \in CtrlKeys THEN PressCtrl(key)
  ELSE IF key.name \in ShiftKeys
    THEN IF ~ ctrl_pressed THEN PressShiftOnly(key) ELSE PressForceSwitch(key)
  ELSE IF key.name = "backspace" /\ BackspaceApplies
    THEN PressBackspace(key)
  ELSE IF key.name = "esc" THEN PressEsc(key)
  ELSE IF key.char # "" /\ IsAlpha(key.char) THEN PressLetter(key)
  ELSE IF key.name \in {"space", "enter"}
    THEN IF input_buffer # <<>> THEN PressCommit(key) ELSE PressIgnored(key)
  ELSE IF DigitSelects(key.char) THEN PressDigit(key)
  ELSE PressIgnored(key)

OnPress ==
  \E key \in Keys :
    /\ listener = "running"
    /\ on_press(key)
    /\ Record(Pressed(key))
    /\ last_ui' = IF ui_queue' # ui_queue
                    THEN <<ui_queue'[Len(ui_queue')]>>
                    ELSE last_ui
    /\ UNCHANGED <<threads, harness>>

(* ----------------------------- on_release ----------------------------- *)
\* variant: releasing either modifier clears both flags
on_release_ClearsBoth(key) ==
  IF key.name \in CtrlKeys \cup ShiftKeys
    THEN /\ ctrl_pressed' = FALSE
         /\ shift_pressed' = FALSE
         /\ UNCHANGED <<stop_event, listener>>
  ELSE IF key.name = "esc"
    THEN /\ stop_event' = TRUE
         /\ listener' = "stopped"
         /\ UNCHANGED modifiers
  ELSE UNCHANGED <<modifiers, stop_event, listener>>

\* lines 375-397
on_release(key) ==
  IF key.name \in CtrlKeys
    THEN /\ ctrl_pressed' = FALSE
         /\ UNCHANGED <<shift_pressed, stop_event, listener>>
  ELSE IF key.name \in ShiftKeys
    THEN /\ shift_pressed' = FALSE
         /\ UNCHANGED <<ctrl_pressed, stop_event, listener>>
  ELSE IF key.name = "esc"
    THEN /\ stop_event' = TRUE
         /\ listener' = "stopped"
         /\ UNCHANGED modifiers
  ELSE UNCHANGED <<modifiers, stop_event, listener>>

OnRelease ==
  \E key \in ReleaseKeys :
    /\ listener = "running"
    /\ on_release(key)
    /\ output' = NoOutput
    /\ NoLookup
    /\ NoTrayCall
    /\ Record(Released(key))
    /\ UNCHANGED <<core, ui_queue, mode_site, last_ui, threads, harness>>

(* ------------------------------ threads ------------------------------- *)
history ==
  <<output, last, pre_mode, pre_raw, prev_kind, mode_site, last_ui, lookup,
    tray_call>>

\* lines 525-534: one iteration of ui_worker that takes an item from
\* ui_queue (an iteration that times out on an empty queue changes nothing)
UIGet ==
  /\ ui_pc = "loop"
  /\ ~ stop_event
  /\ ui_queue # <<>>
  /\ ui_queue' = Tail(ui_queue)
  /\ UNCHANGED <<core, modifiers, stop_event, listener, tray_menu, threads,
                 history, harness>>

\* lines 525 and 538: the loop test finds stop_event set
UIStop ==
  /\ ui_pc = "loop"
  /\ stop_event
  /\ ui_pc' = "done"
  /\ UNCHANGED <<core, modifiers, ui_queue, stop_event, listener, tray_menu,
                 tray_running, main_pc, history, harness>>

\* lines 480-484: the tray menu's quit item
QuitFromTray ==
  /\ tray_running
  /\ tray_running' = FALSE
  /\ stop_event' = TRUE
  /\ UNCHANGED <<core, modifiers, ui_queue, listener, tray_menu, ui_pc,
                 main_pc, history, harness>>

\* lines 576-580: the wait loop of main ends once stop_event is set
MainWait ==
  /\ main_pc = "wait"
  /\ stop_event
  /\ main_pc' = "stop_listener"
  /\ UNCHANGED <<core, modifiers, ui_queue, stop_event, listener, tray_menu,
                 tray_running, ui_pc, history, harness>>

\* lines 584-585
MainStopListener ==
  /\ main_pc = "stop_listener"
  /\ listener' = "stopped"
  /\ main_pc' = "stop_tray"
  /\ UNCHANGED <<core, modifiers, ui_queue, stop_event, tray_menu,
                 tray_running, ui_pc, history, harness>>

\* lines 588-591
MainStopTray ==
  /\ main_pc = "stop_tray"
  /\ tray_running' = FALSE
  /\ main_pc' = "done"
  /\ UNCHANGED <<core, modifiers, ui_queue, stop_event, listener, tray_menu,
                 ui_pc, history, harness>>

Next ==
  \/ OnPress
  \/ OnRelease
  \/ UIGet
  \/ UIStop
  \/ QuitFromTray
  \/ MainWait
  \/ MainStopListener
  \/ MainStopTray

Spec == Init /\ [][Next]_vars

(* ------------------------ classifier harness -------------------------- *)
\* letters that follow the first one in the strings given to the classifier
TailLetters == {"r", "A"}

RECURSIVE TailsUpTo(_)
TailsUpTo(n) ==
  IF n = 0 THEN {<<>>}
  ELSE TailsUpTo(n - 1)
         \cup { Append(t, c) : t \in { u \in TailsUpTo(n - 1) : Len(u) = n - 1 },
                               c \in TailLetters }

LatinLetters == { LowerAlpha[i] : i \in 1..26 } \cup { UpperAlpha[i] : i \in 1..26 }

\* non-empty strings of Latin letters: any first letter, then a short tail
ClassStrings == { <<c>> \o t : c \in LatinLetters, t \in TailsUpTo(MaxStr - 1) }

InitClassify ==
  /\ ProgramInit
  /\ SegOff
  /\ s1 \in ClassStrings
  /\ s2 \in ClassStrings
  /\ r1 = "none"
  /\ r2 = "none"
  /\ cl_pc = "ready"

\* lines 311-316 applied to s1 and to s2
ClassifyBoth ==
  /\ cl_pc = "ready"
  /\ r1' = classify(s1)
  /\ r2' = classify(s2)
  /\ cl_pc' = "done"
  /\ UNCHANGED <<core, modifiers, ui_queue, stop_event, listener, tray_menu,
                 threads, history, s1, s2, seg_harness>>

NextClassify == ClassifyBoth

SpecClassify == InitClassify /\ [][NextClassify]_vars

(* ------------------------- chunking harness --------------------------- *)
MaxSeg == 5

\* characters of the strings given to simple_seg
SegLetters == {"n", "i", "o"}

\* the strings over SegLetters of length at most n
RECURSIVE SegStringsUpTo(_)
SegStringsUpTo(n) ==
  IF n = 0 THEN {<<>>}
  ELSE SegStringsUpTo(n - 1)
         \cup { Append(t, c) :
                  t \in { u \in SegStringsUpTo(n - 1) : Len(u) = n - 1 },
                  c \in SegLetters }

\* a call simple_seg(seg_str) is about to execute line 119
InitSeg ==
  /\ ProgramInit
  /\ ClassifyOff
  /\ seg_str \in SegStringsUpTo(MaxSeg)
  /\ seg_i = 0
  /\ seg_list = <<>>
  /\ seg_pc = "call"

SegOthersUnchanged ==
  UNCHANGED <<core, modifiers, ui_queue, stop_event, listener, tray_menu,
              threads, history, classify_harness, seg_str>>

\* lines 119-120: return [] for the empty string
SegReturnEmpty ==
  /\ seg_pc = "call"
  /\ seg_str = <<>>
  /\ seg_pc' = "returned_empty"
  /\ UNCHANGED <<seg_i, seg_list>>
  /\ SegOthersUnchanged

\* lines 119, 125-126: a non-empty string enters the try block
SegEnter ==
  /\ seg_pc = "call"
  /\ seg_str # <<>>
  /\ seg_list' = <<>>
  /\ seg_i' = 0
  /\ seg_pc' = "loop"
  /\ SegOthersUnchanged

\* lines 127-134: the loop test holds and the body runs once
SegStep ==
  /\ seg_pc = "loop"
  /\ seg_i < Len(seg_str)
  /\ LET after == seg_iter(seg_str, seg_i, seg_list)
     IN  /\ seg_i' = after.i
         /\ seg_list' = after.pinyin_list
  /\ UNCHANGED seg_pc
  /\ SegOthersUnchanged

\* line 127: the loop test fails, control reaches line 137
SegExit ==
  /\ seg_pc = "loop"
  /\ ~(seg_i < Len(seg_str))
  /\ seg_pc' = "chunked"
  /\ UNCHANGED <<seg_i, seg_list>>
  /\ SegOthersUnchanged

NextSeg == SegReturnEmpty \/ SegEnter \/ SegStep \/ SegExit

\* the call runs sequentially to its end: a step that can be taken is taken
SpecSeg == InitSeg /\ [][NextSeg]_vars /\ WF_vars(NextSeg)

(* ============================== claims ================================ *)
\* a step of the listener thread: every other thread moves its own program
\* counter, stops the tray or takes an item from ui_queue
ListenerStep ==
  /\ UNCHANGED threads
  /\ UNCHANGED harness
  /\ Len(ui_queue') >= Len(ui_queue)

\* a step in which the listener delivers a press of a key with one of names
PressStepOf(names) ==
  /\ ListenerStep
  /\ last'.ev = "press"
  /\ last'.key.name \in names

HiddenEmpty == [visible |-> FALSE, buffer |-> <<>>, candidates |-> <<>>]

AllReset ==
  /\ current_mode = "unknown"
  /\ raw_input_buffer = <<>>
  /\ current_candidates = <<>>

\* the letters the specification lists as pinyin initials or finals
SpecPinyinFirst ==
  {"b","p","m","f","d","z","t","n","l","g","k","h","j","q","x","c","s",
   "a","e","i","o","u","v"}

ExpectedMode(text) ==
  IF Lower(text[1]) \in SpecPinyinFirst THEN "pinyin" ELSE "english"

\* C1: a Space/Enter press with a non-empty RawBuffer leaves Mode Unknown,
\* RawBuffer and CandidateList empty and enqueues exactly one hidden, empty
\* UIState; with an empty RawBuffer it changes nothing and enqueues nothing.
C1_CommitResets ==
  [][ PressStepOf({"space", "enter"}) =>
        IF raw_input_buffer # <<>>
          THEN /\ current_mode' = "unknown"
               /\ raw_input_buffer' = <<>>
               /\ current_candidates' = <<>>
               /\ ui_queue' = Append(ui_queue, HiddenEmpty)
          ELSE UNCHANGED <<current_mode, raw_input_buffer, input_buffer,
                           current_candidates, ui_queue>> ]_vars

C1_Witness ==
  /\ last.ev = "press" /\ last.key.name \in {"space", "enter"}
  /\ pre_raw # <<>> /\ pre_mode = "english"
  /\ AllReset
  /\ ui_queue # <<>> /\ ui_queue[Len(ui_queue)] = HiddenEmpty

\* C2: a Space/Enter commit with a non-empty RawBuffer prints CandidateList[0]
\* when Mode is Pinyin and CandidateList is non-empty, and RawBuffer verbatim
\* otherwise; the string is printed by the commit event itself.
C2_CommitOutput ==
  [][ (PressStepOf({"space", "enter"}) /\ raw_input_buffer # <<>>) =>
        output' = IF current_mode = "pinyin" /\ current_candidates # <<>>
                    THEN <<current_candidates[1]>>
                    ELSE <<raw_input_buffer>> ]_vars

C2_Witness ==
  /\ last.ev = "press" /\ last.key.name \in {"space", "enter"}
  /\ pre_mode = "pinyin" /\ pre_raw # <<>>
  /\ output # NoOutput /\ output[1] # pre_raw

\* C3: a digit press k commits CandidateList[k-1] and resets the state iff
\* Mode is Pinyin, k is in 1..5 and CandidateList has at least k entries;
\* every other digit press changes nothing and enqueues nothing.
C3_DigitCommit ==
  [][ (PressStepOf({"char"}) /\ last'.key.char \in DigitChars) =>
        LET k == DigitValue(last'.key.char)
        IN  IF current_mode = "pinyin" /\ k \in 1..5
                 /\ Len(current_candidates) >= k
              THEN /\ output' = <<current_candidates[k]>>
                   /\ current_mode' = "unknown"
                   /\ raw_input_buffer' = <<>>
                   /\ current_candidates' = <<>>
                   /\ ui_queue' = Append(ui_queue, HiddenEmpty)
              ELSE /\ output' = NoOutput
                   /\ UNCHANGED <<current_mode, raw_input_buffer, input_buffer,
                                  current_candidates, ui_queue>> ]_vars

C3_Witness ==
  /\ last.ev = "press" /\ last.key.char = "3"
  /\ pre_mode = "pinyin"
  /\ output # NoOutput /\ output[1] = JoinPath(seg_loop(pre_raw, 0, <<>>), 3)
  /\ AllReset

\* C4: a Shift press while Ctrl is held maps Pinyin to English, English to
\* Pinyin and Unknown to Pinyin and leaves RawBuffer and CandidateList empty;
\* the second of two consecutive force-switches restores a Pinyin or English
\* Mode.
C4_ForceSwitch ==
  [][ (PressStepOf(ShiftKeys) /\ ctrl_pressed) =>
        /\ current_mode' = CASE current_mode = "pinyin" -> "english"
                             [] current_mode = "english" -> "pinyin"
                             [] current_mode = "unknown" -> "pinyin"
        /\ raw_input_buffer' = <<>>
        /\ current_candidates' = <<>>
        /\ (LastKind = "force" /\ pre_mode \in {"pinyin", "english"}
              => current_mode' = pre_mode) ]_vars

C4_Witness ==
  /\ LastKind = "force" /\ prev_kind = "force"
  /\ current_mode = "english" /\ pre_mode = "pinyin"
  /\ raw_input_buffer = <<>> /\ current_candidates = <<>>

\* a step in which Backspace is pressed right after a Latin letter press
BackspaceAfterLetter ==
  /\ PressStepOf({"backspace"})
  /\ last.ev = "press" /\ last.key.char \in LatinLetters

\* C5 (as stated): a letter press followed at once by Backspace returns Mode
\* and RawBuffer to their values before the letter.
C5_RoundTripAlways ==
  [][ BackspaceAfterLetter =>
        /\ current_mode' = pre_mode
        /\ raw_input_buffer' = pre_raw ]_vars

\* C5: when the buffer with the letter appended classifies as Pinyin, the
\* Backspace restores RawBuffer, and restores Mode unless the buffer was empty
\* under a force-switched Mode (Mode is then Unknown); when it classifies as
\* English the Backspace changes neither Mode nor RawBuffer.
C5_RoundTripPinyin ==
  [][ BackspaceAfterLetter =>
        IF current_mode = "pinyin"
          THEN /\ raw_input_buffer' = pre_raw
               /\ current_mode' = IF pre_raw = <<>> THEN "unknown" ELSE pre_mode
          ELSE UNCHANGED <<current_mode, raw_input_buffer>> ]_vars

C5_Witness ==
  /\ last.ev = "press" /\ last.key.name = "backspace"
  /\ prev_kind = "letter"
  /\ pre_mode = "pinyin" /\ Len(pre_raw) = 2
  /\ current_mode = "pinyin" /\ Len(raw_input_buffer) = 1

\* C6: the classifier returns Pinyin exactly when the lower-cased first letter
\* is one of the listed initials or finals, and two strings with the same
\* first letter up to case get the same result.
C6_ClassifyFirstLetter ==
  cl_pc = "done" =>
    /\ r1 = ExpectedMode(s1)
    /\ r2 = ExpectedMode(s2)
    /\ (Lower(s1[1]) = Lower(s2[1]) => r1 = r2)

C6_Witness ==
  /\ cl_pc = "done"
  /\ s1 = <<"N", "r">> /\ s2 = <<"n">>
  /\ r1 = "pinyin" /\ r2 = "pinyin"

\* C7: a non-empty RawBuffer implies Mode is Pinyin or English.
C7_NonEmptyHasMode ==
  raw_input_buffer # <<>> => current_mode \in {"pinyin", "english"}

C7_Witness ==
  /\ last.ev = "press" /\ last.key.name = "backspace"
  /\ raw_input_buffer # <<>> /\ current_mode = "pinyin"

\* C8 (as stated): an empty RawBuffer implies Mode Unknown, and the state is
\* Unknown/empty after a commit, an emptying Backspace and a force-switch.
C8_EmptyIsUnknown ==
  /\ raw_input_buffer = <<>> => current_mode = "unknown"
  /\ mode_site \in {"commit", "force"} => AllReset
  /\ (mode_site = "backspace" /\ raw_input_buffer = <<>>) => AllReset

\* C8: an empty RawBuffer implies Mode Unknown unless Mode was last set by a
\* force-switch; the state is Unknown/empty after a commit and after an
\* emptying Backspace; after a force-switch RawBuffer and CandidateList are
\* empty and Mode is Pinyin or English.
C8_EmptyIsUnknownOrForced ==
  /\ raw_input_buffer = <<>> =>
       (current_mode = "unknown" \/ mode_site = "force")
  /\ mode_site = "commit" => AllReset
  /\ (mode_site = "backspace" /\ raw_input_buffer = <<>>) => AllReset
  /\ mode_site = "force" =>
       /\ raw_input_buffer = <<>>
       /\ current_candidates = <<>>
       /\ current_mode \in {"pinyin", "english"}

C8_Witness ==
  /\ mode_site = "force" /\ LastKind = "force"
  /\ pre_raw # <<>>
  /\ raw_input_buffer = <<>> /\ current_mode = "english"

\* C9: CandidateList has at most 5 entries, is non-empty only if Mode is
\* Pinyin and RawBuffer is non-empty, and is empty when Mode is English or
\* Unknown.
C9_CandidateBounds ==
  /\ Len(current_candidates) <= 5
  /\ current_candidates # <<>> =>
       (current_mode = "pinyin" /\ raw_input_buffer # <<>>)
  /\ current_mode \in {"english", "unknown"} => current_candidates = <<>>

C9_Witness ==
  /\ Len(current_candidates) = 5
  /\ current_mode = "pinyin" /\ Len(raw_input_buffer) = 2

\* C10: a letter press appends the letter to RawBuffer and sets Mode to the
\* classification of the new RawBuffer, also over a force-switched Mode.
C10_LetterAppends ==
  [][ (PressStepOf({"char"}) /\ last'.key.char \in LatinLetters) =>
        /\ raw_input_buffer' = Append(raw_input_buffer, last'.key.char)
        /\ current_mode' = ExpectedMode(raw_input_buffer') ]_vars

C10_Witness ==
  /\ LastKind = "letter"
  /\ pre_raw = <<>> /\ pre_mode = "pinyin"
  /\ raw_input_buffer = <<last.key.char>> /\ current_mode = "english"

(* ----------------------- fair scheduling of threads -------------------- *)
\* ui_worker and main wake at least every 0.5 s (lines 527 and 578) and the
\* clean-up of main runs straight through (lines 583-591)
SpecFair ==
  /\ Init
  /\ [][Next]_vars
  /\ WF_vars(UIStop)
  /\ WF_vars(MainWait)
  /\ WF_vars(MainStopListener)
  /\ WF_vars(MainStopTray)

EscPressed == last.ev = "press" /\ last.key.name = "esc"

AllTerminated ==
  /\ listener = "stopped"
  /\ ui_pc = "done"
  /\ main_pc = "done"

\* C11: an Escape press sets stop_event and changes neither Mode, RawBuffer
\* nor CandidateList and enqueues nothing; stop_event is never cleared; no key
\* event is handled after the Escape; under fair scheduling the listener, the
\* UI worker loop and the wait loop of main all terminate.
C11_EscapeStops ==
  /\ [][ PressStepOf({"esc"}) =>
           /\ stop_event'
           /\ UNCHANGED <<current_mode, raw_input_buffer, input_buffer,
                          current_candidates, ui_queue>> ]_vars
  /\ [][ stop_event => stop_event' ]_vars
  /\ [][ EscPressed =>
           /\ listener' = "stopped"
           /\ UNCHANGED <<core, modifiers, last, pre_mode, pre_raw, prev_kind,
                          output, lookup, tray_call, last_ui>> ]_vars
  /\ (EscPressed ~> AllTerminated)

C11_Witness ==
  /\ EscPressed
  /\ AllTerminated
  /\ stop_event
  /\ current_mode = "pinyin" /\ raw_input_buffer # <<>>
  /\ pre_raw = raw_input_buffer

\* C12 (as stated): the UIState enqueued by a force-switch is a hide message
\* with empty buffer and empty candidates, whatever the new Mode is.
C12_SwitchAlwaysHides ==
  [][ (PressStepOf(ShiftKeys) /\ ctrl_pressed) =>
        ui_queue' = Append(ui_queue, HiddenEmpty) ]_vars

\* C12: the UIState enqueued by a force-switch has empty buffer and empty
\* candidates; it is a hide message when the new Mode is English and has
\* visible=true when the new Mode is Pinyin.
C12_SwitchShowsPinyin ==
  [][ (PressStepOf(ShiftKeys) /\ ctrl_pressed) =>
        ui_queue' = Append(ui_queue,
          [visible |-> (current_mode # "pinyin"), buffer |-> <<>>,
           candidates |-> <<>>]) ]_vars

C12_Witness ==
  /\ LastKind = "force"
  /\ current_mode = "pinyin"
  /\ last_ui = <<[visible |-> TRUE, buffer |-> <<>>, candidates |-> <<>>]>>

\* C13: a Backspace press in Pinyin mode with a non-empty RawBuffer removes
\* exactly the last character, leaves Mode Pinyin if the buffer is still
\* non-empty and Unknown if it became empty (never English), and
\* CandidateList is empty whenever the result is Unknown.
C13_PinyinBackspace ==
  [][ (PressStepOf({"backspace"}) /\ current_mode = "pinyin"
         /\ raw_input_buffer # <<>>) =>
        /\ raw_input_buffer' =
             SubSeq(raw_input_buffer, 1, Len(raw_input_buffer) - 1)
        /\ current_mode' =
             IF Len(raw_input_buffer) > 1 THEN "pinyin" ELSE "unknown"
        /\ current_mode' # "english"
        /\ (current_mode' = "unknown" => current_candidates' = <<>>) ]_vars

C13_Witness ==
  /\ last.ev = "press" /\ last.key.name = "backspace"
  /\ pre_mode = "pinyin" /\ Len(pre_raw) = 1
  /\ current_mode = "unknown"
  /\ raw_input_buffer = <<>> /\ current_candidates = <<>>

\* raw_input_buffer' is raw_input_buffer with one character appended
GrewByOne ==
  /\ Len(raw_input_buffer') = Len(raw_input_buffer) + 1
  /\ SubSeq(raw_input_buffer', 1, Len(raw_input_buffer)) = raw_input_buffer

\* C14: a Backspace press when Mode is English or Unknown, or RawBuffer is
\* empty, leaves Mode, RawBuffer, CandidateList and the modifier flags
\* unchanged and enqueues nothing; a buffer classified English only grows
\* until a commit or a force-switch clears it.
C14_BackspaceIgnored ==
  /\ [][ (PressStepOf({"backspace"})
            /\ (current_mode \in {"english", "unknown"}
                  \/ raw_input_buffer = <<>>)) =>
           UNCHANGED <<current_mode, raw_input_buffer, input_buffer,
                       current_candidates, ctrl_pressed, shift_pressed,
                       ui_queue>> ]_vars
  /\ [][ (current_mode = "english" /\ raw_input_buffer # <<>>) =>
           \/ raw_input_buffer' = raw_input_buffer
           \/ GrewByOne
           \/ (raw_input_buffer' = <<>> /\ mode_site' \in {"commit", "force"})
       ]_vars

C14_Witness ==
  /\ last.ev = "press" /\ last.key.name = "backspace"
  /\ pre_mode = "english" /\ Len(pre_raw) = 2
  /\ current_mode = "english" /\ raw_input_buffer = pre_raw

\* a key event that only does modifier bookkeeping: a Ctrl press, a Ctrl or
\* Shift release, or a Shift press while Ctrl is not held
ModifierOnlyStep ==
  /\ ListenerStep
  /\ \/ last'.key.name \in CtrlKeys
     \/ (last'.key.name \in ShiftKeys /\ last'.ev = "release")
     \/ (last'.key.name \in ShiftKeys /\ last'.ev = "press" /\ ~ ctrl_pressed)

\* C15: ctrlHeld changes only on a press or release of a Ctrl key and
\* shiftHeld only on a press or release of a Shift key; a Ctrl press, a Ctrl
\* release, a Shift release and a Shift press without Ctrl leave Mode,
\* RawBuffer and CandidateList unchanged and enqueue nothing.
C15_ModifierBookkeeping ==
  /\ [][ ctrl_pressed' # ctrl_pressed =>
           /\ ListenerStep
           /\ last'.key.name \in CtrlKeys
           /\ ctrl_pressed' = (last'.ev = "press") ]_vars
  /\ [][ shift_pressed' # shift_pressed =>
           /\ ListenerStep
           /\ last'.key.name \in ShiftKeys
           /\ shift_pressed' = (last'.ev = "press") ]_vars
  /\ [][ ModifierOnlyStep =>
           UNCHANGED <<current_mode, raw_input_buffer, input_buffer,
                       current_candidates, ui_queue>> ]_vars

C15_Witness ==
  /\ last.ev = "press" /\ last.key.name \in CtrlKeys
  /\ ctrl_pressed /\ shift_pressed
  /\ current_mode = "pinyin" /\ raw_input_buffer # <<>>
  /\ pre_raw = raw_input_buffer /\ pre_mode = current_mode

\* the lookup of the last key event was made on the buffer as it is now and
\* current_candidates is what that call returned
LookupIsCurrent ==
  /\ lookup # <<>>
  /\ lookup[1].arg = raw_input_buffer
  /\ current_candidates =
       get_top_candidates(raw_input_buffer, 5,
                          [raised |-> lookup[1].raised, n |-> lookup[1].n])

\* C16: in Pinyin mode CandidateList is the lookup of the current RawBuffer:
\* every step that ends in Pinyin mode with a changed RawBuffer or Mode sets
\* CandidateList to the result of a lookup made on the whole new RawBuffer
\* (empty for an empty buffer), and every other step leaves it as it was.
C16_CandidatesFresh ==
  /\ [](current_mode = "pinyin" =>
          \E dag_result \in DagOutcomes :
            current_candidates =
              get_top_candidates(raw_input_buffer, 5, dag_result))
  /\ [][ current_mode' = "pinyin" =>
           IF raw_input_buffer' = raw_input_buffer
                /\ current_mode' = current_mode
             THEN current_candidates' = current_candidates
             ELSE IF raw_input_buffer' = <<>>
               THEN current_candidates' = <<>>
               ELSE LookupIsCurrent' ]_vars

C16_Witness ==
  /\ last.ev = "press" /\ last.key.name = "backspace"
  /\ current_mode = "pinyin"
  /\ LookupIsCurrent
  /\ Len(current_candidates) = 3
  /\ Len(pre_raw) = Len(raw_input_buffer) + 1

\* the lookup of the last key event failed inside simple_seg
LookupFailed == lookup # <<>> /\ lookup[1].raised

\* C17: when the lookup fails during a letter press or a Backspace in Pinyin
\* mode the key event completes with the updated RawBuffer, Mode Pinyin, an
\* empty CandidateList and one visible UIState without candidates, the
\* listener keeps running, and a following Space/Enter commits RawBuffer
\* verbatim.
C17_LookupFailureContained ==
  /\ [][ (ListenerStep /\ LookupFailed') =>
           /\ last'.ev = "press"
           /\ raw_input_buffer' =
                IF last'.key.name = "backspace"
                  THEN SubSeq(raw_input_buffer, 1, Len(raw_input_buffer) - 1)
                  ELSE Append(raw_input_buffer, last'.key.char)
           /\ current_mode' = "pinyin"
           /\ current_candidates' = <<>>
           /\ ui_queue' = Append(ui_queue,
                [visible |-> TRUE, buffer |-> raw_input_buffer',
                 candidates |-> <<>>])
           /\ UNCHANGED <<listener, stop_event>> ]_vars
  /\ [][ (PressStepOf({"space", "enter"}) /\ LookupFailed) =>
           /\ output' = <<raw_input_buffer>>
           /\ current_mode' = "unknown"
           /\ raw_input_buffer' = <<>>
           /\ current_candidates' = <<>> ]_vars

C17_Witness ==
  /\ LookupFailed
  /\ last.ev = "press" /\ last.key.name = "backspace"
  /\ current_mode = "pinyin" /\ Len(raw_input_buffer) = 1
  /\ current_candidates = <<>>
  /\ last_ui = <<[visible |-> TRUE, buffer |-> raw_input_buffer,
                  candidates |-> <<>>]>>
  /\ listener = "running"

\* ''.join of a list of chunks
RECURSIVE Concat(_)
Concat(chunks) ==
  IF chunks = <<>> THEN <<>> ELSE Head(chunks) \o Concat(Tail(chunks))

\* chunks are two characters long, except a last chunk of one character
\* exactly when str has odd length
PairsThenOdd(str, chunks) ==
  \A j \in 1..Len(chunks) :
    Len(chunks[j]) = IF j = Len(chunks) /\ Len(str) % 2 = 1 THEN 1 ELSE 2

\* C18: for a non-empty input the chunking loop terminates with chunks whose
\* concatenation is the input, all of length 2 except a last chunk of length
\* 1 exactly when the input length is odd; for the empty string the call
\* returns without entering the loop.
C18_Chunking ==
  /\ [](seg_pc = "chunked" =>
          /\ seg_str # <<>>
          /\ Concat(seg_list) = seg_str
          /\ PairsThenOdd(seg_str, seg_list))
  /\ [](seg_str # <<>> => <>(seg_pc = "chunked"))
  /\ [](seg_str = <<>> =>
          /\ seg_pc \in {"call", "returned_empty"}
          /\ seg_list = <<>>
          /\ <>(seg_pc = "returned_empty"))

C18_Witness ==
  /\ seg_pc = "chunked"
  /\ Len(seg_str) = 5
  /\ Len(seg_list) = 3
  /\ Len(seg_list[3]) = 1
  /\ Concat(seg_list) = seg_str

\* the most recently enqueued UIState carries the current buffer and the
\* current candidates
LastUICarriesState ==
  /\ last_ui[1].buffer = raw_input_buffer
  /\ last_ui[1].candidates = current_candidates

\* a step that changes RawBuffer, CandidateList or Mode puts exactly one
\* UIState on the queue
ChangeEnqueuesOne ==
  [][ (ListenerStep /\ (\/ raw_input_buffer' # raw_input_buffer
                        \/ current_candidates' # current_candidates
                        \/ current_mode' # current_mode)) =>
        /\ last_ui' # <<>>
        /\ ui_queue' = Append(ui_queue, last_ui'[1]) ]_vars

\* C19 as stated: the last UIState is visible exactly when Mode is Pinyin
\* and RawBuffer is non-empty.
C19_VisibleIffPinyinNonEmpty ==
  /\ [](last_ui # <<>> =>
          /\ LastUICarriesState
          /\ last_ui[1].visible <=>
               (current_mode = "pinyin" /\ raw_input_buffer # <<>>))
  /\ ChangeEnqueuesOne

\* C19: once a UIState was enqueued, the most recently enqueued one has the
\* current RawBuffer as buffer, the current CandidateList as candidates and
\* is visible exactly when Mode is Pinyin; every step that changes
\* RawBuffer, CandidateList or Mode enqueues exactly one UIState.
C19_LastUIDescribesState ==
  /\ [](last_ui # <<>> =>
          /\ LastUICarriesState
          /\ last_ui[1].visible <=> (current_mode = "pinyin"))
  /\ ChangeEnqueuesOne

C19_Witness ==
  /\ last_ui # <<>>
  /\ LastKind = "force"
  /\ pre_mode = "english"
  /\ pre_raw # <<>>
  /\ current_mode = "pinyin"
  /\ raw_input_buffer = <<>>
  /\ last_ui[1].visible

\* the tray was told a mode by the last key event only if that mode is
\* Pinyin or English
TrayToldKnownMode == tray_call = <<>> \/ tray_call[1] \in {"pinyin", "english"}

\* C20: whenever Mode is Pinyin or English the mode last passed to the tray
\* updater is the current Mode; the updater is never passed Unknown, and a
\* step that makes Mode Unknown (a commit, an emptying Backspace) passes
\* nothing and leaves the tray's value as it was.
C20_TrayFollowsMode ==
  /\ [](/\ current_mode \in {"pinyin", "english"} => tray_menu = current_mode
        /\ TrayToldKnownMode
        /\ tray_menu = "unknown" => current_mode = "unknown")
  /\ [][ (current_mode' = "unknown" /\ current_mode # "unknown") =>
           tray_call' = <<>> /\ tray_menu' = tray_menu ]_vars

C20_Witness ==
  /\ last.ev = "press" /\ last.key.name = "backspace"
  /\ pre_mode = "pinyin"
  /\ current_mode = "unknown"
  /\ tray_menu = "pinyin"
  /\ tray_call = <<>>

====
